---- MODULE Spec2Model ----
(***************************************************************************)
(* Model of the DRACOON settings adapter (src/dracoon/settings.py): the    *)
(* async DRACOONSettings methods with their session gate, the payload      *)
(* builders, and the legacy request-descriptor functions.                  *)
(*                                                                         *)
(* Python values are modelled as follows.                                  *)
(*   str            a TLA+ string                                          *)
(*   int, bool      an integer, a Boolean                                  *)
(*   Optional[T]    None is <<>>, a provided value v is <<v>>              *)
(*   dict payload   a record over the keys the builder can set, each key   *)
(*                  holding None (key absent) or <<v>> (key present)       *)
(*   List[str]      a sequence of strings                                  *)
(***************************************************************************)
EXTENDS Integers, Sequences, FiniteSets, TLC

VARIABLES dracoon, settings, accepted, refresh, task, calls, fn

vars == <<dracoon, settings, accepted, refresh, task, calls, fn>>

(***************************************************************************)
(* Bounds of the model.                                                    *)
(***************************************************************************)
\* number of calls (coroutines) that run concurrently
NumTasks == 2
\* number of calls made one after the other
MaxCalls == 2
\* home room quotas range over 0..MaxQuota
MaxQuota == 1

-----------------------------------------------------------------------------
(***************************************************************************)
(* Python primitives                                                       *)
(***************************************************************************)
None == <<>>

Some(v) == <<v>>

Digits == <<"0", "1", "2", "3", "4", "5", "6", "7", "8", "9">>

RECURSIVE NatStr(_)
NatStr(n) ==
    IF n < 10 THEN Digits[n + 1]
    ELSE NatStr(n \div 10) \o Digits[(n % 10) + 1]

\* str(int): decimal digits, a leading '-' for a negative number
str(n) == IF n < 0 THEN "-" \o NatStr(0 - n) ELSE NatStr(n)

\* truth value of an Optional[bool] in `if x:`
TruthyBool(o) == o # None /\ o[1]

\* truth value of an Optional[int] in `if x:`
TruthyInt(o) == o # None /\ o[1] # 0

\* truth value of an Optional[str] in `if x:`
TruthyStr(o) == o # None /\ o[1] # ""

\* truth value of an Optional[List[str]] in `if x:`
TruthyList(o) == o # None /\ o[1] # <<>>

\* outcome of a synchronous function: a returned value or a raised exception
Return(v) == [raised |-> "", value |-> v]

Raise(exc, v) == [raised |-> exc, value |-> v]

-----------------------------------------------------------------------------
(***************************************************************************)
(* Payload builders of DRACOONSettings                                     *)
(***************************************************************************)
\* the dict `settings_update = {}`
EmptySettings ==
    [homeRoomsActive |-> None, homeRoomQuota |-> None, homeRoomParentName |-> None]

\* the dict `webhook = {}`
EmptyWebhook ==
    [name |-> None, eventTypeNames |-> None, url |-> None, secret |-> None,
     isEnabled |-> None, triggerExampleEvent |-> None]

make_settings_update(home_rooms_active, home_room_quota, home_room_parent_name) ==
    IF home_rooms_active = Some(FALSE)
    THEN Raise("ValueError", EmptySettings)
    ELSE Return(
        [homeRoomsActive |->
            IF TruthyBool(home_rooms_active) THEN home_rooms_active ELSE None,
         homeRoomQuota |->
            IF TruthyInt(home_room_quota) THEN home_room_quota ELSE None,
         homeRoomParentName |->
            IF TruthyStr(home_room_parent_name) THEN home_room_parent_name ELSE None])

make_webhook(name, event_types, url, secret, is_enabled, trigger_example) ==
    [name |-> Some(name),
     eventTypeNames |-> Some(event_types),
     url |-> Some(url),
     secret |-> IF TruthyStr(secret) THEN secret ELSE None,
     isEnabled |-> IF is_enabled # None THEN is_enabled ELSE None,
     triggerExampleEvent |-> IF trigger_example # None THEN trigger_example ELSE None]

make_webhook_update(name, event_types, url, secret, is_enabled, trigger_example) ==
    [name |-> IF TruthyStr(name) THEN name ELSE None,
     eventTypeNames |-> IF TruthyList(event_types) THEN event_types ELSE None,
     url |-> IF TruthyStr(url) THEN url ELSE None,
     secret |-> IF TruthyStr(secret) THEN secret ELSE None,
     isEnabled |-> IF is_enabled # None THEN is_enabled ELSE None,
     triggerExampleEvent |-> IF trigger_example # None THEN trigger_example ELSE None]

(***************************************************************************)
(* The pydantic models of settings_models, which settings.py imports.      *)
(* Parsing a dict keeps the fields that were set; dict(exclude_unset=True) *)
(* gives them back.                                                        *)
(***************************************************************************)
UpdateSettings(d) ==
    [homeRoomsActive |-> d.homeRoomsActive,
     homeRoomQuota |-> d.homeRoomQuota,
     homeRoomParentName |-> d.homeRoomParentName]

CreateWebhook(d) ==
    [name |-> d.name, eventTypeNames |-> d.eventTypeNames, url |-> d.url,
     secret |-> d.secret, isEnabled |-> d.isEnabled,
     triggerExampleEvent |-> d.triggerExampleEvent]

UpdateWebhook(d) ==
    [name |-> d.name, eventTypeNames |-> d.eventTypeNames, url |-> d.url,
     secret |-> d.secret, isEnabled |-> d.isEnabled,
     triggerExampleEvent |-> d.triggerExampleEvent]

dict_exclude_unset(m) == m

-----------------------------------------------------------------------------
(***************************************************************************)
(* LEGACY API: request descriptors                                         *)
(***************************************************************************)
get_settings ==
    [url |-> "/settings", body |-> None, method |-> "GET",
     content_type |-> "application/json"]

update_settings(params) ==
    [url |-> "/settings", body |-> Some(UpdateSettings(params)), method |-> "PUT",
     content_type |-> "application/json"]

get_webhooks(offset, filter, limit, sort) ==
    [url |-> "/settings/webhooks?offset=" \o str(offset)
             \o (IF filter # None THEN "&filter=" \o filter[1] ELSE "")
             \o (IF limit # None THEN "&limit=" \o str(limit[1]) ELSE "")
             \o (IF sort # None THEN "&sort=" \o sort[1] ELSE ""),
     body |-> None, method |-> "GET", content_type |-> "application/json"]

create_webhook(params) ==
    [url |-> "/settings/webhooks", body |-> Some(CreateWebhook(params)),
     method |-> "POST", content_type |-> "application/json"]

get_webhook(hookID) ==
    [url |-> "/settings/webhooks/" \o str(hookID), body |-> None, method |-> "GET",
     content_type |-> "application/json"]

update_webhook(hookID, params) ==
    [url |-> "/settings/webhooks/" \o str(hookID),
     body |-> Some(UpdateWebhook(params)), method |-> "PUT",
     content_type |-> "application/json"]

delete_webhook(hookID) ==
    [url |-> "/settings/webhooks/" \o str(hookID), body |-> None,
     method |-> "DELETE", content_type |-> "application/json"]

get_hook_event_types ==
    [url |-> "/settings/webhooks/event_types", body |-> None, method |-> "GET",
     content_type |-> "application/json"]

-----------------------------------------------------------------------------
(***************************************************************************)
(* DRACOONSettings: construction, and the HTTP request each async method   *)
(* hands to self.dracoon.http once the session gate has been passed.       *)
(***************************************************************************)
\* DRACOONSettings.__init__ (the argument is a DRACOONClient)
DRACOONSettings_init(dracoon_client) ==
    IF dracoon_client.connection
    THEN Return([dracoon |-> "dracoon_client",
                 api_url |-> dracoon_client.base_url \o dracoon_client.api_base_url
                             \o "/settings"])
    ELSE Raise("ValueError", [dracoon |-> "", api_url |-> ""])

NoRequest == [method |-> "", url |-> "", json |-> None]

get_settings_request(self) ==
    Return([method |-> "GET", url |-> self.api_url, json |-> None])

\* line 62 reads the attribute self.pi_url, which __init__ never sets
update_settings_request(self, settings_update) ==
    IF "pi_url" \in DOMAIN self
    THEN Return([method |-> "PUT", url |-> self.pi_url,
                 json |-> Some(dict_exclude_unset(UpdateSettings(settings_update)))])
    ELSE Raise("AttributeError", NoRequest)

\* get_webhooks with `if filter:` and `if limit:` in place of `!= None`
get_webhooks_request_truthy(self, offset, filter, limit, sort) ==
    Return([method |-> "GET",
            url |-> self.api_url \o "/webhooks/?offset=" \o str(offset)
                    \o (IF TruthyStr(filter) THEN "&filter=" \o filter[1] ELSE "")
                    \o (IF TruthyInt(limit) THEN "&limit=" \o str(limit[1]) ELSE "")
                    \o (IF sort # None THEN "&sort=" \o sort[1] ELSE ""),
            json |-> None])

get_webhooks_request(self, offset, filter, limit, sort) ==
    Return([method |-> "GET",
            url |-> self.api_url \o "/webhooks/?offset=" \o str(offset)
                    \o (IF filter # None THEN "&filter=" \o filter[1] ELSE "")
                    \o (IF limit # None THEN "&limit=" \o str(limit[1]) ELSE "")
                    \o (IF sort # None THEN "&sort=" \o sort[1] ELSE ""),
            json |-> None])

create_webhook_request(self, user) ==
    Return([method |-> "POST", url |-> self.api_url \o "/webhooks",
            json |-> Some(dict_exclude_unset(CreateWebhook(user)))])

get_webhook_request(self, hook_id) ==
    Return([method |-> "GET", url |-> self.api_url \o "/webhooks/" \o str(hook_id),
            json |-> None])

update_webhook_request(self, hook_id, hook_update) ==
    Return([method |-> "PUT", url |-> self.api_url \o "/webhooks/" \o str(hook_id),
            json |-> Some(dict_exclude_unset(UpdateWebhook(hook_update)))])

delete_webhook_request(self, hook_id) ==
    Return([method |-> "DELETE", url |-> self.api_url \o "/webhooks/" \o str(hook_id),
            json |-> None])

get_webhook_event_types_request(self) ==
    Return([method |-> "GET", url |-> self.api_url \o "/webhooks/event_types",
            json |-> None])

-----------------------------------------------------------------------------
(***************************************************************************)
(* The client the adapter runs on (dracoon.core, imported by settings.py). *)
(*   dracoon   the DRACOONClient: base_url, api_base_url, whether it holds *)
(*             a connection, the access token (numbered 1, 2, ...) and     *)
(*             what is known of its expiry                                 *)
(*   accepted  the access tokens the server accepts                        *)
(*   refresh   the refresh exchange: whether one is in flight, and how     *)
(*             many were started                                           *)
(***************************************************************************)
Tasks == 1 .. NumTasks

BaseUrls == {"https://dracoon.team", "https://demo.dracoon.com"}

DRACOONClient(base_url, expires) ==
    [base_url |-> base_url, api_base_url |-> "/api/v4", connection |-> TRUE,
     access_token |-> 1, expires |-> expires]

\* test_connection answers without a network call when the expiry is known
\* and has passed, and probes the API otherwise
test_connection_probes(client) == client.expires # "passed"

\* the probe's answer: whether the server accepts the token it carried
probe_result(token) == token \in accepted

(***************************************************************************)
(* One call of an async method is a task:                                  *)
(*   pc      idle, test_connection (probe in flight), connect (waiting for *)
(*           the refresh exchange), connect_done, request (HTTP request in *)
(*           flight), done                                                 *)
(*   token   the access token the client held when the method was called   *)
(*   stale   whether the server had stopped accepting that token by then   *)
(*   seen    the refresh exchanges started before the method was called    *)
(*   log     what the call did, in order                                   *)
(*   sent    the HTTP requests it handed to self.dracoon.http              *)
(*   result  what the caller got: a returned response or a raised error    *)
(***************************************************************************)
NoArgs ==
    [hook_id |-> 0, offset |-> 0, filter |-> None, limit |-> None, sort |-> None,
     payload |-> None]

NoResult == [kind |-> "none", exc |-> "", status |-> 0, message |-> "", url |-> ""]

IdleTask ==
    [pc |-> "idle", op |-> "", args |-> NoArgs, token |-> 0, stale |-> FALSE, seen |-> 0,
     conn |-> "",
     log |-> <<>>, sent |-> <<>>, result |-> NoResult]

\* arguments the calls are made with
HookIds == {12}

SettingsUpdates == {make_settings_update(Some(TRUE), Some(1), None).value}

NewWebhooks ==
    {make_webhook("hook", <<"node.created">>, "https://h.example", None,
                  Some(FALSE), None)}

WebhookUpdates == {make_webhook_update(Some("hook2"), None, None, None, None, None)}

ListArgs ==
    {[NoArgs EXCEPT !.offset = 0],
     [NoArgs EXCEPT !.offset = 0, !.limit = Some(500)],
     [NoArgs EXCEPT !.offset = 10, !.filter = Some("x"), !.sort = Some("name")]}

Statuses == {200, 401, 404, 500}

\* the request the method `op` builds after the gate
RequestOf(self, op, args) ==
    CASE op = "get_settings" -> get_settings_request(self)
      [] op = "update_settings" -> update_settings_request(self, args.payload[1])
      [] op = "get_webhooks" ->
            get_webhooks_request(self, args.offset, args.filter, args.limit, args.sort)
      [] op = "create_webhook" -> create_webhook_request(self, args.payload[1])
      [] op = "get_webhook" -> get_webhook_request(self, args.hook_id)
      [] op = "update_webhook" ->
            update_webhook_request(self, args.hook_id, args.payload[1])
      [] op = "delete_webhook" -> delete_webhook_request(self, args.hook_id)
      [] op = "get_webhook_event_types" -> get_webhook_event_types_request(self)

\* try: res = await self.dracoon.http.<method>(url): the request goes out, or
\* building it raises
Send(t, tk) ==
    LET r == RequestOf(settings, tk.op, tk.args) IN
    task' = [task EXCEPT ![t] =
        IF r.raised # ""
        THEN [tk EXCEPT !.pc = "done", !.log = @ \o <<r.raised>>,
                        !.result = [NoResult EXCEPT !.kind = "raise", !.exc = r.raised]]
        ELSE [tk EXCEPT !.pc = "request", !.log = @ \o <<"request">>,
                        !.sent = Append(@, r.value)]]

\* await self.dracoon.connect(OAuth2ConnectionType.refresh_token): starts the
\* refresh exchange, or waits for the one in flight
Connect(t, tk) ==
    /\ refresh' = [inflight |-> TRUE,
                   exchanges |-> refresh.exchanges + (IF refresh.inflight THEN 0 ELSE 1)]
    /\ task' = [task EXCEPT ![t] =
           [tk EXCEPT !.pc = "connect",
                      !.log = @ \o <<"connect",
                                     IF refresh.inflight THEN "join" ELSE "exchange">>]]

\* if not await self.dracoon.test_connection() and self.dracoon.connection:
\*     await self.dracoon.connect(OAuth2ConnectionType.refresh_token)
\* valid is what test_connection returned
Gate(t, tk, valid) ==
    IF ~valid /\ dracoon.connection
    THEN Connect(t, tk)
    ELSE Send(t, tk) /\ UNCHANGED refresh

\* no synchronous function has been applied since the last method call
NoFn == [name |-> "", args |-> <<>>, out |-> <<>>]

\* a method is called: it runs up to its first suspension point
Call(t, op, args) ==
    /\ task[t].pc = "idle"
    /\ LET tk == [task[t] EXCEPT !.op = op, !.args = args,
                                 !.token = dracoon.access_token,
                                 !.stale = dracoon.access_token \notin accepted,
                                 !.seen = refresh.exchanges,
                                 !.log = <<"test_connection">>]
       IN  IF test_connection_probes(dracoon)
           THEN /\ task' = [task EXCEPT ![t] = [tk EXCEPT !.pc = "test_connection"]]
                /\ UNCHANGED refresh
           ELSE Gate(t, [tk EXCEPT !.log = @ \o <<"False">>], FALSE)
    /\ fn' = NoFn
    /\ UNCHANGED <<dracoon, settings, accepted, calls>>

DRACOONSettings_get_settings(t) == Call(t, "get_settings", NoArgs)

\* update_settings called with one of the dicts in `updates`
update_settings_call(t, updates) ==
    \E p \in updates :
        Call(t, "update_settings", [NoArgs EXCEPT !.payload = Some(p)])

DRACOONSettings_update_settings(t) == update_settings_call(t, SettingsUpdates)

\* get_webhooks called with one of the argument lists in `lists`
get_webhooks_call(t, lists) ==
    \E a \in lists : Call(t, "get_webhooks", a)

DRACOONSettings_get_webhooks(t) == get_webhooks_call(t, ListArgs)

DRACOONSettings_create_webhook(t) ==
    \E p \in NewWebhooks :
        Call(t, "create_webhook", [NoArgs EXCEPT !.payload = Some(p)])

DRACOONSettings_get_webhook(t) ==
    \E h \in HookIds : Call(t, "get_webhook", [NoArgs EXCEPT !.hook_id = h])

DRACOONSettings_update_webhook(t) ==
    \E h \in HookIds, p \in WebhookUpdates :
        Call(t, "update_webhook", [NoArgs EXCEPT !.hook_id = h, !.payload = Some(p)])

DRACOONSettings_delete_webhook(t) ==
    \E h \in HookIds : Call(t, "delete_webhook", [NoArgs EXCEPT !.hook_id = h])

DRACOONSettings_get_webhook_event_types(t) ==
    Call(t, "get_webhook_event_types", NoArgs)

\* the probe of test_connection comes back and the method goes on
ProbeReturn(t) ==
    /\ task[t].pc = "test_connection"
    /\ LET valid == probe_result(task[t].token)
       IN  Gate(t, [task[t] EXCEPT !.log = @ \o <<IF valid THEN "True" ELSE "False">>],
                valid)
    /\ UNCHANGED <<dracoon, settings, accepted, calls, fn>>

\* the refresh exchange ends: on success the client is connected with a new token, on
\* failure its token state is untouched; every waiting connect() returns
RefreshComplete ==
    /\ refresh.inflight
    /\ \E outcome \in {"ok", "AuthenticationError", "TransportError"},
          e \in {"unknown", "future"} :
          /\ IF outcome = "ok"
             THEN /\ dracoon' = [dracoon EXCEPT !.access_token = @ + 1, !.expires = e,
                                                !.connection = TRUE]
                  /\ accepted' = accepted \cup {dracoon.access_token + 1}
             ELSE UNCHANGED <<dracoon, accepted>>
          /\ task' = [u \in Tasks |->
                 IF task[u].pc = "connect"
                 THEN [task[u] EXCEPT !.pc = "connect_done", !.conn = outcome]
                 ELSE task[u]]
    /\ refresh' = [refresh EXCEPT !.inflight = FALSE]
    /\ UNCHANGED <<settings, calls, fn>>

\* connect() returns to the method, or raises in it
ConnectReturn(t) ==
    /\ task[t].pc = "connect_done"
    /\ IF task[t].conn = "ok"
       THEN Send(t, [task[t] EXCEPT !.log = @ \o <<"connected">>])
       ELSE task' = [task EXCEPT ![t] =
                [@ EXCEPT !.pc = "done", !.log = @ \o <<"connect_failed">>,
                          !.result = [NoResult EXCEPT !.kind = "raise",
                                                      !.exc = task[t].conn]]]
    /\ UNCHANGED <<dracoon, settings, accepted, refresh, calls, fn>>

\* return res
HttpResponse(t) ==
    /\ task[t].pc = "request"
    /\ \E status \in Statuses :
          task' = [task EXCEPT ![t] =
              [@ EXCEPT !.pc = "done", !.log = @ \o <<"response">>,
                        !.result = [NoResult EXCEPT !.kind = "return",
                                       !.status = status,
                                       !.url = task[t].sent[Len(task[t].sent)].url]]]
    /\ UNCHANGED <<dracoon, settings, accepted, refresh, calls, fn>>

\* a transport failure answered by sending the request again
HttpRequestErrorRetry(t) ==
    /\ task[t].pc = "request"
    /\ Send(t, [task[t] EXCEPT !.log = @ \o <<"request_error">>])
    /\ UNCHANGED <<dracoon, settings, accepted, refresh, calls, fn>>

\* except httpx.RequestError as e:
\*     raise httpx.RequestError(f'Connection to DRACOON failed: {e.request.url}')
HttpRequestError(t) ==
    /\ task[t].pc = "request"
    /\ task' = [task EXCEPT ![t] =
           [@ EXCEPT !.pc = "done", !.log = @ \o <<"request_error">>,
                     !.result = [NoResult EXCEPT !.kind = "raise",
                                    !.exc = "RequestError",
                                    !.message = "Connection to DRACOON failed: "
                                        \o task[t].sent[Len(task[t].sent)].url]]]
    /\ UNCHANGED <<dracoon, settings, accepted, refresh, calls, fn>>

\* the server stops accepting the client's access token (it expired or was
\* revoked); a known expiry has then passed
Expire ==
    /\ dracoon.access_token \in accepted
    /\ accepted' = accepted \ {dracoon.access_token}
    /\ dracoon' = [dracoon EXCEPT !.expires = IF @ = "future" THEN "passed" ELSE @]
    /\ UNCHANGED <<settings, refresh, task, calls, fn>>

\* the client loses its connection (logged out, or the caller's code cleared
\* it): the session object is mutable and is read again by every gate
Disconnect ==
    /\ dracoon.connection
    /\ dracoon' = [dracoon EXCEPT !.connection = FALSE]
    /\ UNCHANGED <<settings, accepted, refresh, task, calls, fn>>

Init ==
    /\ \E b \in BaseUrls, e \in {"unknown", "future"} : dracoon = DRACOONClient(b, e)
    /\ settings = DRACOONSettings_init(dracoon).value
    /\ accepted = {dracoon.access_token}
    /\ refresh = [inflight |-> FALSE, exchanges |-> 0]
    /\ task = [t \in Tasks |-> IdleTask]
    /\ calls = 0
    /\ fn = NoFn

Next ==
    \/ \E t \in Tasks :
          \/ DRACOONSettings_get_settings(t)
          \/ DRACOONSettings_update_settings(t)
          \/ DRACOONSettings_get_webhooks(t)
          \/ DRACOONSettings_create_webhook(t)
          \/ DRACOONSettings_get_webhook(t)
          \/ DRACOONSettings_update_webhook(t)
          \/ DRACOONSettings_delete_webhook(t)
          \/ DRACOONSettings_get_webhook_event_types(t)
          \/ ProbeReturn(t)
          \/ ConnectReturn(t)
          \/ HttpResponse(t)
          \/ HttpRequestError(t)
    \/ RefreshComplete
    \/ Expire
    \/ Disconnect

Spec == Init /\ [][Next]_vars

-----------------------------------------------------------------------------
(***************************************************************************)
(* Calls made one after the other: the caller awaits each call before it   *)
(* makes the next.                                                         *)
(***************************************************************************)
\* the awaiting caller gets the call's outcome
CallEnds(t) ==
    /\ task[t].pc = "done"
    /\ task' = [task EXCEPT ![t] = IdleTask]
    /\ calls' = calls + 1
    /\ UNCHANGED <<dracoon, settings, accepted, refresh, fn>>

NextSeq ==
    \/ /\ calls < MaxCalls
       /\ \/ DRACOONSettings_get_settings(1)
          \/ DRACOONSettings_update_settings(1)
          \/ DRACOONSettings_get_webhooks(1)
          \/ DRACOONSettings_create_webhook(1)
          \/ DRACOONSettings_get_webhook(1)
          \/ DRACOONSettings_update_webhook(1)
          \/ DRACOONSettings_delete_webhook(1)
          \/ DRACOONSettings_get_webhook_event_types(1)
    \/ ProbeReturn(1)
    \/ ConnectReturn(1)
    \/ HttpResponse(1)
    \/ HttpRequestError(1)
    \/ CallEnds(1)
    \/ RefreshComplete
    \/ Expire
    \/ Disconnect

SpecSeq == Init /\ [][NextSeq]_vars

-----------------------------------------------------------------------------
(***************************************************************************)
(* The synchronous functions applied to arguments: fn holds the function   *)
(* last applied, its arguments and its outcome.                            *)
(***************************************************************************)
OptBools == {None, Some(TRUE), Some(FALSE)}

OptQuotas == {None} \cup {Some(q) : q \in 0 .. MaxQuota}

OptStrs == {None, Some(""), Some("Homes")}

OptLists == {None, Some(<<>>), Some(<<"node.created">>)}

Offsets == {0, 10, 250}

Filters == {None, Some(""), Some("x")}

Limits == {None, Some(1), Some(500)}

Sorts == {None, Some("name")}

\* dicts a caller can hand to update_settings
SettingsDicts ==
    {[homeRoomsActive |-> a, homeRoomQuota |-> q, homeRoomParentName |-> n] :
        a \in OptBools, q \in OptQuotas, n \in OptStrs}

\* a synchronous function runs in the caller, between its awaited calls, and
\* touches nothing but its arguments
FnUnchanged ==
    /\ \A t \in Tasks : task[t].pc = "idle"
    /\ UNCHANGED <<dracoon, settings, accepted, refresh, task, calls>>

Apply_make_settings_update ==
    /\ \E a \in OptBools, q \in OptQuotas, n \in OptStrs :
          fn' = [name |-> "make_settings_update", args |-> <<a, q, n>>,
                 out |-> make_settings_update(a, q, n)]
    /\ FnUnchanged

Apply_make_webhook ==
    /\ \E n \in {"", "hook"}, ev \in {<<>>, <<"node.created">>},
          u \in {"https://h.example"}, s \in OptStrs,
          en \in OptBools, tr \in {None, Some(TRUE)} :
          fn' = [name |-> "make_webhook", args |-> <<n, ev, u, s, en, tr>>,
                 out |-> Return(make_webhook(n, ev, u, s, en, tr))]
    /\ FnUnchanged

Apply_make_webhook_update ==
    /\ \E n \in OptStrs, ev \in OptLists, u \in {None, Some("https://h.example")},
          s \in {None, Some("")}, en \in OptBools, tr \in {None, Some(TRUE)} :
          fn' = [name |-> "make_webhook_update", args |-> <<n, ev, u, s, en, tr>>,
                 out |-> Return(make_webhook_update(n, ev, u, s, en, tr))]
    /\ FnUnchanged

\* the legacy update_settings
Apply_update_settings ==
    /\ \E d \in SettingsDicts :
          fn' = [name |-> "update_settings", args |-> <<d>>,
                 out |-> Return(update_settings(d))]
    /\ FnUnchanged

\* the legacy get_webhooks
Apply_get_webhooks ==
    /\ \E o \in Offsets, f \in Filters, l \in Limits, s \in Sorts :
          fn' = [name |-> "get_webhooks", args |-> <<o, f, l, s>>,
                 out |-> Return(get_webhooks(o, f, l, s))]
    /\ FnUnchanged

NextFn ==
    \/ Apply_make_settings_update
    \/ Apply_make_webhook
    \/ Apply_make_webhook_update
    \/ Apply_update_settings
    \/ Apply_get_webhooks

SpecFn == Init /\ [][NextFn]_vars

-----------------------------------------------------------------------------
(***************************************************************************)
(* get_webhooks and update_settings, the methods called one after the      *)
(* other over all their arguments and run step by step, next to the legacy *)
(* functions and make_settings_update applied by the same caller.          *)
(***************************************************************************)
\* argument lists a caller can hand to get_webhooks
ListGrid ==
    {[NoArgs EXCEPT !.offset = o, !.filter = f, !.limit = l, !.sort = s] :
        o \in Offsets, f \in Filters, l \in Limits, s \in Sorts}

NextArgs ==
    \/ /\ calls < MaxCalls
       /\ \/ get_webhooks_call(1, ListGrid)
          \/ update_settings_call(1, SettingsDicts)
    \/ ProbeReturn(1)
    \/ ConnectReturn(1)
    \/ HttpResponse(1)
    \/ HttpRequestError(1)
    \/ CallEnds(1)
    \/ RefreshComplete
    \/ Expire
    \/ Disconnect
    \/ Apply_make_settings_update
    \/ Apply_update_settings
    \/ Apply_get_webhooks

SpecArgs == Init /\ [][NextArgs]_vars

-----------------------------------------------------------------------------
(***************************************************************************)
(* Properties                                                              *)
(***************************************************************************)
Has(seq, x) == \E i \in 1 .. Len(seq) : seq[i] = x

Count(seq, x) == Cardinality({i \in 1 .. Len(seq) : seq[i] = x})

\* where x first stands in seq (0: nowhere)
IndexOf(seq, x) ==
    IF Has(seq, x)
    THEN CHOOSE i \in 1 .. Len(seq) : seq[i] = x /\ \A j \in 1 .. (i - 1) : seq[j] # x
    ELSE 0

StartsWith(s, prefix) ==
    Len(s) >= Len(prefix) /\ SubSeq(s, 1, Len(prefix)) = prefix

EndsWith(s, suffix) ==
    Len(s) >= Len(suffix) /\ SubSeq(s, Len(s) - Len(suffix) + 1, Len(s)) = suffix

\* where the character c first stands in the string s, from position i on (0: nowhere)
RECURSIVE Find(_, _, _)
Find(s, c, i) ==
    IF i > Len(s) THEN 0
    ELSE IF SubSeq(s, i, i) = c THEN i
    ELSE Find(s, c, i + 1)

\* the query string of a URL: what follows its first '?'
QueryOf(url) ==
    LET i == Find(url, "?", 1)
    IN  IF i = 0 THEN "" ELSE SubSeq(url, i + 1, Len(url))

\* the string s cut at every character c
RECURSIVE Split(_, _)
Split(s, c) ==
    LET i == Find(s, c, 1)
    IN  IF i = 0 THEN <<s>>
        ELSE <<SubSeq(s, 1, i - 1)>> \o Split(SubSeq(s, i + 1, Len(s)), c)

\* the parameters a list query is to carry, in their fixed order
ExpectedParams(offset, filter, limit, sort) ==
    <<"offset=" \o str(offset)>>
    \o (IF filter # None THEN <<"filter=" \o filter[1]>> ELSE <<>>)
    \o (IF limit # None THEN <<"limit=" \o str(limit[1])>> ELSE <<>>)
    \o (IF sort # None THEN <<"sort=" \o sort[1]>> ELSE <<>>)

\* the base of the API: base_url + api_base_url
ApiBase == dracoon.base_url \o dracoon.api_base_url

\* the HTTP method of each operation
MethodOf(op) ==
    CASE op \in {"get_settings", "get_webhooks", "get_webhook",
                 "get_webhook_event_types"} -> "GET"
      [] op \in {"update_settings", "update_webhook"} -> "PUT"
      [] op = "create_webhook" -> "POST"
      [] op = "delete_webhook" -> "DELETE"

\* the descriptor the legacy function of the operation returns for the arguments
LegacyOf(op, args) ==
    CASE op = "get_settings" -> get_settings
      [] op = "update_settings" -> update_settings(args.payload[1])
      [] op = "get_webhooks" ->
            get_webhooks(args.offset, args.filter, args.limit, args.sort)
      [] op = "create_webhook" -> create_webhook(args.payload[1])
      [] op = "get_webhook" -> get_webhook(args.hook_id)
      [] op = "update_webhook" -> update_webhook(args.hook_id, args.payload[1])
      [] op = "delete_webhook" -> delete_webhook(args.hook_id)
      [] op = "get_webhook_event_types" -> get_hook_event_types

\* C1: of two calls started while the session is invalid and before any refresh
\* exchange has begun, that both find the same access token invalid, only one
\* performs a refresh exchange and the other waits for it: they never both
\* carry out an exchange of their own.
C1_OneRefreshExchange ==
    \A t \in Tasks, u \in Tasks :
        (/\ t # u
         /\ task[t].stale /\ task[u].stale
         /\ task[t].token = task[u].token /\ task[t].seen = task[u].seen
         /\ Has(task[t].log, "False") /\ Has(task[u].log, "False"))
        => ~(/\ Has(task[t].log, "exchange") /\ Has(task[t].log, "connected")
             /\ Has(task[u].log, "exchange") /\ Has(task[u].log, "connected"))

\* C2: in a call made on its own, test_connection runs exactly once and first;
\* if it reports the session invalid, the call performs exactly one refresh, which
\* has completed before the HTTP request goes out; if it reports the session
\* valid, no refresh is performed.
C2_GateOncePerCall ==
    \A t \in Tasks :
        LET lg == task[t].log IN
        task[t].pc # "idle" =>
            /\ Count(lg, "test_connection") = 1
            /\ lg[1] = "test_connection"
            /\ Has(lg, "request") =>
                  /\ Has(lg, "True") \/ Has(lg, "False")
                  /\ IndexOf(lg, "request") > 2
            /\ Has(lg, "False") =>
                  /\ Count(lg, "connect") = 1
                  /\ Count(lg, "exchange") = 1
                  /\ task[t].pc = "connect" <=> refresh.inflight
                  /\ Has(lg, "request") =>
                        /\ Has(lg, "connected")
                        /\ IndexOf(lg, "exchange") < IndexOf(lg, "connected")
                        /\ IndexOf(lg, "connected") < IndexOf(lg, "request")
                        /\ ~refresh.inflight
            /\ Has(lg, "True") =>
                  /\ ~Has(lg, "connect")
                  /\ ~Has(lg, "exchange")
                  /\ ~refresh.inflight

\* C3: a call sends its HTTP request only after the session was reported valid
\* or a refresh succeeded in that call; a call whose session was reported invalid
\* and whose refresh did not succeed ends with an error and has sent nothing.
C3_NoRequestWithoutSession ==
    \A t \in Tasks :
        LET lg == task[t].log IN
        /\ task[t].sent # <<>> =>
              \/ Has(lg, "True") /\ IndexOf(lg, "True") < IndexOf(lg, "request")
              \/ Has(lg, "connected") /\ IndexOf(lg, "connected") < IndexOf(lg, "request")
        /\ (Has(lg, "False") /\ ~Has(lg, "connected") /\ task[t].pc = "done") =>
              /\ task[t].result.kind = "raise"
              /\ task[t].result.exc \in {"AuthenticationError", "TransportError"}
              /\ task[t].sent = <<>>
        /\ (Has(lg, "False") /\ ~Has(lg, "connected")) => task[t].sent = <<>>

\* C4: the query string get_webhooks builds (the request the method sends and
\* the descriptor of the legacy function) carries offset always and filter,
\* limit and sort exactly when they were provided, joined with '&' in the order
\* offset, filter, limit, sort.
C4_QueryString ==
    LET Right(q, o, f, l, s) ==
            /\ Split(q, "&") = ExpectedParams(o, f, l, s)
            /\ <<o, f, l, s>> = <<0, None, None, None>> => q = "offset=0"
            /\ <<o, f, l, s>> = <<0, None, Some(500), None>> => q = "offset=0&limit=500"
            /\ <<o, f, l, s>> = <<10, Some("x"), None, Some("name")>> =>
                  q = "offset=10&filter=x&sort=name"
            /\ <<o, f, l, s>> = <<250, Some(""), Some(1), None>> =>
                  q = "offset=250&filter=&limit=1"
    IN  /\ fn.name = "get_webhooks" =>
              /\ fn.out.raised = ""
              /\ Right(QueryOf(fn.out.value.url),
                       fn.args[1], fn.args[2], fn.args[3], fn.args[4])
        /\ \A t \in Tasks :
              task[t].op = "get_webhooks" =>
                  /\ ~Has(task[t].log, "AttributeError")
                  /\ \A i \in 1 .. Len(task[t].sent) :
                        Right(QueryOf(task[t].sent[i].url), task[t].args.offset,
                              task[t].args.filter, task[t].args.limit, task[t].args.sort)

C4_Witness ==
    /\ task[1].op = "get_webhooks"
    /\ task[1].pc = "request"
    /\ task[1].args.offset = 250 /\ task[1].args.filter = Some("")
    /\ task[1].args.limit = Some(1) /\ task[1].args.sort = None
    /\ Len(task[1].sent) = 1
    /\ QueryOf(task[1].sent[1].url) = "offset=250&filter=&limit=1"

\* whether the function applied was handed an update that deactivates home rooms
Deactivates ==
    CASE fn.name = "make_settings_update" -> fn.args[1] = Some(FALSE)
      [] fn.name = "update_settings" -> fn.args[1].homeRoomsActive = Some(FALSE)
      [] OTHER -> FALSE

\* whether call t is an update_settings handed such an update
DeactivatingCall(t) ==
    /\ task[t].op = "update_settings"
    /\ task[t].args.payload[1].homeRoomsActive = Some(FALSE)

\* C5: an update that deactivates home rooms is rejected by
\* make_settings_update, the legacy update_settings and
\* DRACOONSettings.update_settings alike: the functions raise and yield no
\* payload and no request descriptor, and the method sends no HTTP request and
\* ends with an error.
C5_DeactivationRejected ==
    /\ Deactivates => fn.out.raised # ""
    /\ \A t \in Tasks :
          DeactivatingCall(t) =>
              /\ task[t].sent = <<>>
              /\ task[t].pc = "done" => task[t].result.kind = "raise"

\* C6: a response handed to the caller as the call's return value has a 2xx
\* status; every other status reaches the caller as an error.
C6_StatusClassified ==
    \A t \in Tasks :
        task[t].result.kind = "return" => task[t].result.status \in 200 .. 299

\* C7: a call sends at most one HTTP request; when the exchange fails at
\* transport level the call ends with a RequestError whose message carries the
\* URL of the request, and nothing is sent again.
C7_TransportErrorNoRetry ==
    \A t \in Tasks :
        LET lg == task[t].log IN
        /\ Len(task[t].sent) <= 1
        /\ Count(lg, "request") <= 1
        /\ Has(lg, "request_error") =>
              /\ task[t].pc = "done"
              /\ lg[Len(lg)] = "request_error"
              /\ task[t].result.kind = "raise"
              /\ task[t].result.exc = "RequestError"
              /\ Len(task[t].sent) = 1
              /\ task[t].sent[1].url # ""
              /\ EndsWith(task[t].result.message, task[t].sent[1].url)

C7_Witness ==
    /\ task[1].pc = "done"
    /\ task[1].op = "get_webhooks"
    /\ Has(task[1].log, "request_error")
    /\ task[1].result.message =
          "Connection to DRACOON failed: " \o ApiBase \o "/settings/webhooks/?offset=0"

\* C8: the payload a builder returns holds an optional field exactly when the
\* argument was provided (not None), with the value provided.
C8_PartialUpdate ==
    LET a == fn.args IN
    /\ (fn.name = "make_settings_update" /\ fn.out.raised = "") =>
          fn.out.value = [homeRoomsActive |-> a[1], homeRoomQuota |-> a[2],
                          homeRoomParentName |-> a[3]]
    /\ fn.name = "make_webhook" =>
          fn.out.value = [name |-> Some(a[1]), eventTypeNames |-> Some(a[2]),
                          url |-> Some(a[3]), secret |-> a[4], isEnabled |-> a[5],
                          triggerExampleEvent |-> a[6]]
    /\ fn.name = "make_webhook_update" =>
          fn.out.value = [name |-> a[1], eventTypeNames |-> a[2], url |-> a[3],
                          secret |-> a[4], isEnabled |-> a[5],
                          triggerExampleEvent |-> a[6]]

\* C9: a call that found the session valid and met no transport failure has
\* sent exactly one request, with the operation's method, to a URL under
\* base_url + api_base_url + '/settings', and returned that request's response.
C9_OneRequestPerCall ==
    \A t \in Tasks :
        (/\ task[t].pc = "done"
         /\ Has(task[t].log, "True")
         /\ ~Has(task[t].log, "request_error")) =>
            /\ Len(task[t].sent) = 1
            /\ task[t].sent[1].method = MethodOf(task[t].op)
            /\ StartsWith(task[t].sent[1].url, ApiBase \o "/settings")
            /\ task[t].result.kind = "return"
            /\ task[t].result.url = task[t].sent[1].url

\* C10: the request a method sends has the method and, relative to the API
\* base, the path and query string of the descriptor the legacy function of the
\* same operation returns for the same arguments.
C10_SameRequestAsLegacy ==
    \A t \in Tasks :
        task[t].sent # <<>> =>
            /\ task[t].sent[1].method = LegacyOf(task[t].op, task[t].args).method
            /\ task[t].sent[1].url = ApiBase \o LegacyOf(task[t].op, task[t].args).url

====
